---- MODULE Spec2Model ----
(***************************************************************************)
(* A model of the ccnet user manager (net/server/user-mgr.c): the          *)
(* EmailUser table behind ccnet_db_*, the optional LDAP directory, and the *)
(* public ccnet_user_manager_* operations that route between the two.      *)
(*                                                                         *)
(* The relational engine and the LDAP client library are collaborators:    *)
(* each call into them takes its outcome (executed / failed) as an input   *)
(* of the operation, recorded in `last` together with the arguments and    *)
(* the values the operation returned.                                      *)
(***************************************************************************)
EXTENDS Integers, Sequences, FiniteSets, TLC

VARIABLES
    cfg,        \* manager->use_ldap, manager->user_dn (set by prepare)
    dialect,    \* ccnet_db_type (db)
    catalog,    \* tables and indexes that exist in the database
    db,         \* the rows of table EmailUser
    nextId,     \* the AUTOINCREMENT / SERIAL counter of EmailUser.id
    hist,       \* per email: the last effective write to its row: "none",
                \* the plaintext of a successful add, "changed" by an
                \* update, "removed" by a remove that returned success
    last,       \* the last public call: arguments, collaborator outcomes, results
    adds        \* per caller thread: its add call in progress, when add
                \* calls run concurrently

vars == <<cfg, dialect, catalog, db, nextId, hist, last, adds>>

----------------------------------------------------------------------------
(* Bounds and input domains *)

MaxId == 2
MaxTime == 1
\* Largest start and largest limit passed to the listing.
MaxStart == 1
MaxLimit == 2

Emails == {"admin@x", "user@x"}
Passwords == {"pw1", "pw2"}
Flags == {0, 1}
Times == 1..MaxTime
Ids == 1..MaxId

NULL == "NULL"

Dialects == {"SQLITE", "MYSQL", "PGSQL"}

----------------------------------------------------------------------------
(* Credential hasher: SHA-1 of the plaintext, as 40 hex characters *)

\* Variant: only the first two bytes of the plaintext are hashed (SHA-1 of "pw").
hash_password_prefix(passwd) == "1a91d62f7ca67399625a4368a6ab5d4a3baa6073"

hash_password(passwd) ==
    CASE passwd = "pw1" -> "02c593fd9af8254b859d426a76b6cd42847fbec1"
      [] passwd = "pw2" -> "f16ca2dfa3688bf08c7a4e21544af15bd598cb70"
      [] OTHER          -> "67fab92a16d6246960fc2d976e22c426730a2abf"

----------------------------------------------------------------------------
(* Schema: the DDL check_db_table issues, statement by statement *)

\* Catalog objects: <<"table", name>> and
\* <<"index", name, table, column, unique>>.
Table(name) == <<"table", name>>
Index(name, table, col, unique) == <<"index", name, table, col, unique>>
Kind(o) == o[1]
Name(o) == o[2]

\* CREATE TABLE IF NOT EXISTS t (... inline constraints ...)
CreateTableIfNotExists(cat, name, inlineIndexes) ==
    IF \E o \in cat : Kind(o) = "table" /\ Name(o) = name
    THEN cat
    ELSE cat \cup {Table(name)} \cup inlineIndexes

\* CREATE [UNIQUE] INDEX IF NOT EXISTS n ON t (col): index names are
\* database-wide, so an existing index of that name on any table makes
\* the statement a no-op.
CreateIndexIfNotExists(cat, ix) ==
    IF \E o \in cat : Kind(o) = "index" /\ Name(o) = Name(ix)
    THEN cat
    ELSE cat \cup {ix}

\* Variant: the tables are created with no index at all.
check_db_table_no_index(db_type, cat) ==
    IF db_type \in {"MYSQL", "SQLITE", "PGSQL"}
    THEN CreateTableIfNotExists(
             CreateTableIfNotExists(cat, "EmailUser", {}), "Binding", {})
    ELSE cat

check_db_table(db_type, cat) ==
    IF db_type = "MYSQL" THEN
        LET c1 == CreateTableIfNotExists(cat, "EmailUser",
                    {Index("EmailUser.email", "EmailUser", "email", TRUE)})
        IN  CreateTableIfNotExists(c1, "Binding",
                    {Index("Binding.peer_id", "Binding", "peer_id", TRUE),
                     Index("Binding.email", "Binding", "email", FALSE)})
    ELSE IF db_type = "SQLITE" THEN
        LET c1 == CreateTableIfNotExists(cat, "EmailUser", {})
            c2 == CreateIndexIfNotExists(c1,
                    Index("email_index", "EmailUser", "email", TRUE))
            c3 == CreateTableIfNotExists(c2, "Binding", {})
            c4 == CreateIndexIfNotExists(c3,
                    Index("email_index", "Binding", "email", FALSE))
        IN  CreateIndexIfNotExists(c4,
                    Index("peer_index", "Binding", "peer_id", TRUE))
    ELSE IF db_type = "PGSQL" THEN
        LET c1 == CreateTableIfNotExists(cat, "EmailUser",
                    {Index("EmailUser.email", "EmailUser", "email", TRUE)})
        IN  CreateTableIfNotExists(c1, "Binding",
                    {Index("Binding.peer_id", "Binding", "peer_id", TRUE)})
    ELSE cat

HasUnique(cat, table, col) ==
    \E o \in cat : /\ Kind(o) = "index"
                   /\ o[3] = table
                   /\ o[4] = col
                   /\ o[5]

----------------------------------------------------------------------------
(* The relational engine, at the interface the manager uses *)

Row(id, email, passwd, is_staff, is_active, ctime) ==
    [id |-> id, email |-> email, passwd |-> passwd,
     is_staff |-> is_staff, is_active |-> is_active, ctime |-> ctime]

\* Variant: the INSERT replaces an existing row of the email and succeeds.
SqlInsertOrReplace(email, passwd, is_staff, is_active, ctime, dbok) ==
    IF ~dbok
    THEN [ret |-> -1, db |-> db, nextId |-> nextId]
    ELSE [ret |-> 0,
          db |-> {r \in db : r.email # email}
                 \cup {Row(nextId, email, passwd, is_staff, is_active, ctime)},
          nextId |-> nextId + 1]

\* INSERT INTO EmailUser(email, passwd, is_staff, is_active, ctime) VALUES ...
\* through ccnet_db_query: 0 when the statement executed, -1 when it failed
\* (engine failure, or the unique index on email rejecting the row).
SqlInsert(email, passwd, is_staff, is_active, ctime, dbok) ==
    IF \/ ~dbok
       \/ /\ HasUnique(catalog, "EmailUser", "email")
          /\ \E r \in db : r.email = email
    THEN [ret |-> -1, db |-> db, nextId |-> nextId]
    ELSE [ret |-> 0,
          db |-> db \cup {Row(nextId, email, passwd, is_staff, is_active, ctime)},
          nextId |-> nextId + 1]

\* DELETE FROM EmailUser WHERE email='..'
SqlDelete(email, dbok) ==
    IF ~dbok THEN [ret |-> -1, db |-> db]
    ELSE [ret |-> 0, db |-> {r \in db : r.email # email}]

\* UPDATE EmailUser SET passwd=.., is_staff=.., is_active=.. WHERE id=..
SqlUpdate(id, passwd, is_staff, is_active, dbok) ==
    IF ~dbok THEN [ret |-> -1, db |-> db]
    ELSE [ret |-> 0,
          db |-> {IF r.id = id
                  THEN [r EXCEPT !.passwd = passwd, !.is_staff = is_staff,
                                 !.is_active = is_active]
                  ELSE r : r \in db}]

\* The row of smallest id in a non-empty set of rows (storage order).
FirstRow(rows) == CHOOSE r \in rows : \A q \in rows : r.id <= q.id

----------------------------------------------------------------------------
(* Accounts as handed to callers (CcnetEmailUser) *)

User(id, email, is_staff, is_active, ctime) ==
    [id |-> id, email |-> email, is_staff |-> is_staff,
     is_active |-> is_active, ctime |-> ctime]

\* A NULL CcnetEmailUser pointer.
NoUser == User(-1, NULL, 0, 0, -1)

get_emailuser_cb(row) ==
    User(row.id, row.email, row.is_staff, row.is_active, row.ctime)

\* ccnet_db_foreach_selected_row with get_emailuser_cb, which returns FALSE
\* and so stops the iteration after the first row: the number of rows
\* visited (-1 when the query failed) and the account built from the row.
SelectOneUser(rows, dbok) ==
    IF ~dbok THEN [n |-> -1, user |-> NoUser]
    ELSE IF rows = {} THEN [n |-> 0, user |-> NoUser]
    ELSE [n |-> 1, user |-> get_emailuser_cb(FirstRow(rows))]

\* ccnet_db_check_for_existence: FALSE when the query failed.
CheckForExistence(rows, dbok) == dbok /\ rows # {}

----------------------------------------------------------------------------
(* The directory: entries in the order the server returns them.  Each entry
   has a distinguished name, the values of the login attribute and the
   password its simple bind accepts. *)

ServiceDN == "cn=svc"
ServicePw == "secret"

Entry(dn, mail, pw) == [dn |-> dn, mail |-> mail, pw |-> pw]

DirEntry1 == Entry("uid=u1", <<"user@x">>, "pw1")
DirEntry2 == Entry("uid=u2", <<"admin@x", "user@x">>, "pw2")

Directories ==
    {<<>>, <<DirEntry1>>, <<DirEntry2>>,
     <<DirEntry1, DirEntry2>>, <<DirEntry2, DirEntry1>>}

\* Where a call into the LDAP library fails during one operation.
SearchFaults == {"none", "init", "setopt", "bind", "search"}
VerifyFaults == SearchFaults \cup {"getdn", "init2", "setopt2", "bind2"}

\* The filter "(login_attr=uid)": "*" matches every entry that has the
\* attribute, a literal matches an entry holding it among the values.
Matches(e, uid) ==
    uid = "*" \/ \E i \in 1..Len(e.mail) : e.mail[i] = uid

RECURSIVE SearchResult(_, _)
SearchResult(d, uid) ==
    IF d = <<>> THEN <<>>
    ELSE IF Matches(Head(d), uid)
         THEN <<Head(d)>> \o SearchResult(Tail(d), uid)
         ELSE SearchResult(Tail(d), uid)

\* Whether the server accepts a simple bind of dn with password.
BindAccepted(d, dn, password) ==
    \/ dn = ServiceDN /\ password = ServicePw
    \/ \E i \in 1..Len(d) : d[i].dn = dn /\ d[i].pw = password

\* ldap_init_and_bind: ld is whether a handle is returned; binds counts
\* ldap_bind_s calls; open is the number of handles left open by the call
\* (the returned one, or one that is dropped without ldap_unbind_s).
ldap_init_and_bind(d, user_dn, password, stage) ==
    IF stage = "init" THEN [ld |-> FALSE, binds |-> 0, open |-> 0]
    ELSE IF stage = "setopt" THEN [ld |-> FALSE, binds |-> 0, open |-> 1]
    ELSE IF user_dn # NULL THEN
        IF stage = "bind" \/ ~BindAccepted(d, user_dn, password)
        THEN [ld |-> FALSE, binds |-> 1, open |-> 0]
        ELSE [ld |-> TRUE, binds |-> 1, open |-> 1]
    ELSE [ld |-> TRUE, binds |-> 0, open |-> 1]

FirstStage(fault) ==
    IF fault \in {"init", "setopt", "bind"} THEN fault ELSE "ok"
SecondStage(fault) ==
    CASE fault = "init2"   -> "init"
      [] fault = "setopt2" -> "setopt"
      [] fault = "bind2"   -> "bind"
      [] OTHER             -> "ok"

\* ldap_verify_user_password: ret, the ldap_bind_s and ldap_search_s calls
\* made, the handles opened (ldap_initialize calls that returned one) and
\* the handles still open at return.
ldap_verify_user_password(d, uid, password, fault) ==
    LET b1 == ldap_init_and_bind(d, cfg.user_dn, cfg.password, FirstStage(fault))
    IN  IF ~b1.ld
        THEN [ret |-> -1, binds |-> b1.binds, searches |-> 0,
              inits |-> 1, open |-> b1.open]
        ELSE IF fault = "search"
        THEN [ret |-> -1, binds |-> b1.binds, searches |-> 1,
              inits |-> 1, open |-> b1.open - 1]
        ELSE LET res == SearchResult(d, uid)
             IN  IF res = <<>>
                 THEN [ret |-> -1, binds |-> b1.binds, searches |-> 1,
                       inits |-> 1, open |-> b1.open - 1]
                 ELSE LET dn == IF fault = "getdn" THEN NULL ELSE res[1].dn
                          b2 == ldap_init_and_bind(d, dn, password,
                                                   SecondStage(fault))
                      IN  [ret |-> IF b2.ld THEN 0 ELSE -1,
                           binds |-> b1.binds + b2.binds,
                           searches |-> 1,
                           inits |-> 2,
                           open |-> (b1.open - 1)
                                    + (IF b2.ld THEN b2.open - 1 ELSE b2.open)]

\* Variant: an account built from a directory entry is staff.
LdapUserStaff(e) == User(0, e.mail[1], 1, 1, 0)

LdapUser(e) == User(0, e.mail[1], 0, 1, 0)

\* g_list_prepend of each entry's account in turn: the list ends up in the
\* reverse of the order the server returned the entries.
RECURSIVE PrependAll(_, _)
PrependAll(entries, acc) ==
    IF entries = <<>> THEN acc
    ELSE PrependAll(Tail(entries), <<LdapUser(Head(entries))>> \o acc)

\* ldap_list_users: the GList (NULL is the empty list).
ldap_list_users(d, uid, fault) ==
    LET b1 == ldap_init_and_bind(d, cfg.user_dn, cfg.password, FirstStage(fault))
    IN  IF ~b1.ld
        THEN [ret |-> <<>>, binds |-> b1.binds, searches |-> 0,
              inits |-> 1, open |-> b1.open]
        ELSE IF fault = "search"
        THEN [ret |-> <<>>, binds |-> b1.binds, searches |-> 1,
              inits |-> 1, open |-> b1.open - 1]
        ELSE [ret |-> PrependAll(SearchResult(d, uid), <<>>),
              binds |-> b1.binds, searches |-> 1,
              inits |-> 1, open |-> b1.open - 1]

\* ldap_count_users: ldap_count_entries of the result, -1 on failure.
ldap_count_users(d, uid, fault) ==
    LET b1 == ldap_init_and_bind(d, cfg.user_dn, cfg.password, FirstStage(fault))
    IN  IF ~b1.ld
        THEN [ret |-> -1, binds |-> b1.binds, searches |-> 0,
              inits |-> 1, open |-> b1.open]
        ELSE IF fault = "search"
        THEN [ret |-> -1, binds |-> b1.binds, searches |-> 1,
              inits |-> 1, open |-> b1.open - 1]
        ELSE [ret |-> Len(SearchResult(d, uid)),
              binds |-> b1.binds, searches |-> 1,
              inits |-> 1, open |-> b1.open - 1]

\* No directory call made.
NoLdap == [binds |-> 0, searches |-> 0, inits |-> 0, open |-> 0]

LdapPart(v) ==
    [binds |-> v.binds, searches |-> v.searches,
     inits |-> v.inits, open |-> v.open]

----------------------------------------------------------------------------
(* Configuration: the [LDAP] group of the key file, read by prepare *)

KeyFiles ==
    [HOST : {NULL, "ldap://h"}, BASE : {NULL, "dc=x"},
     USER_DN : {NULL, ServiceDN}, PASSWORD : {NULL, ServicePw}]

\* A manager as g_object_new leaves it.
NewManager == [use_ldap |-> FALSE, user_dn |-> NULL, password |-> NULL]

try_load_ldap_settings(keyf) ==
    IF keyf.HOST = NULL THEN [ret |-> 0, cfg |-> NewManager]
    ELSE IF keyf.BASE = NULL
    THEN [ret |-> -1, cfg |-> [NewManager EXCEPT !.use_ldap = TRUE]]
    ELSE IF keyf.USER_DN # NULL /\ keyf.PASSWORD = NULL
    THEN [ret |-> -1, cfg |-> [NewManager EXCEPT !.use_ldap = TRUE,
                                                 !.user_dn = keyf.USER_DN]]
    ELSE IF keyf.USER_DN # NULL
    THEN [ret |-> 0, cfg |-> [use_ldap |-> TRUE, user_dn |-> keyf.USER_DN,
                              password |-> keyf.PASSWORD]]
    ELSE [ret |-> 0, cfg |-> [NewManager EXCEPT !.use_ldap = TRUE]]

----------------------------------------------------------------------------
(* The public operations of the manager, as functions of the state
   and of the call's inputs: arguments, whether the database executes the
   statement (dbok), the directory's content (d) and where, if anywhere, the
   LDAP library fails (fault). *)

\* Variant: the INSERT is issued whether or not the directory is active.
add_emailuser_no_ldap_guard(email, passwd, is_staff, is_active, now, dbok) ==
    SqlInsert(email, hash_password(passwd), is_staff, is_active, now, dbok)

ccnet_user_manager_add_emailuser(email, passwd, is_staff, is_active, now, dbok) ==
    IF cfg.use_ldap
    THEN [ret |-> 0, db |-> db, nextId |-> nextId]
    ELSE SqlInsert(email, hash_password(passwd), is_staff, is_active,
                         now, dbok)

\* Variant: remove returns success without issuing the DELETE.
remove_emailuser_noop(email, dbok) == [ret |-> 0, db |-> db]

ccnet_user_manager_remove_emailuser(email, dbok) ==
    IF cfg.use_ldap
    THEN [ret |-> 0, db |-> db]
    ELSE SqlDelete(email, dbok)

\* Variant: under the directory, validate never looks at the local store.
validate_emailuser_no_bypass(email, passwd, dbok, d, fault) ==
    LET hashed_passwd == hash_password(passwd)
        rows == {r \in db : r.email = email /\ r.passwd = hashed_passwd}
    IN  IF cfg.use_ldap
        THEN LET v == ldap_verify_user_password(d, email, passwd, fault)
             IN  [ret |-> v.ret, ldap |-> LdapPart(v)]
        ELSE [ret |-> IF CheckForExistence(rows, dbok) THEN 0 ELSE -1,
              ldap |-> NoLdap]

\* Variant: under the directory, any local digest match is accepted, staff
\* or not.
validate_emailuser_any_local(email, passwd, dbok, d, fault) ==
    LET hashed_passwd == hash_password(passwd)
        rows == {r \in db : r.email = email /\ r.passwd = hashed_passwd}
    IN  IF cfg.use_ldap
        THEN LET sel == SelectOneUser(rows, dbok)
             IN  IF sel.n > 0
                 THEN [ret |-> 0, ldap |-> NoLdap]
                 ELSE LET v == ldap_verify_user_password(d, email, passwd, fault)
                      IN  [ret |-> v.ret, ldap |-> LdapPart(v)]
        ELSE [ret |-> IF CheckForExistence(rows, dbok) THEN 0 ELSE -1,
              ldap |-> NoLdap]

\* Variant: validate tells an unknown email (-2) from a wrong password.
validate_emailuser_reveals_unknown(email, passwd, dbok, d, fault) ==
    LET hashed_passwd == hash_password(passwd)
        rows == {r \in db : r.email = email /\ r.passwd = hashed_passwd}
    IN  IF cfg.use_ldap
        THEN LET sel == SelectOneUser(rows, dbok)
             IN  IF sel.n > 0 /\ sel.user.is_staff # 0
                 THEN [ret |-> 0, ldap |-> NoLdap]
                 ELSE LET v == ldap_verify_user_password(d, email, passwd, fault)
                      IN  [ret |-> IF v.ret # 0 /\ v.searches = 1
                                      /\ SearchResult(d, email) = <<>>
                                   THEN -2 ELSE v.ret,
                           ldap |-> LdapPart(v)]
        ELSE [ret |-> IF CheckForExistence(rows, dbok) THEN 0
                      ELSE IF \E r \in db : r.email = email THEN -1 ELSE -2,
              ldap |-> NoLdap]

ccnet_user_manager_validate_emailuser(email, passwd, dbok, d, fault) ==
    LET hashed_passwd == hash_password(passwd)
        rows == {r \in db : r.email = email /\ r.passwd = hashed_passwd}
    IN  IF cfg.use_ldap
        THEN LET sel == SelectOneUser(rows, dbok)
             IN  IF sel.n > 0 /\ sel.user.is_staff # 0
                 THEN [ret |-> 0, ldap |-> NoLdap]
                 ELSE LET v == ldap_verify_user_password(d, email, passwd, fault)
                      IN  [ret |-> v.ret, ldap |-> LdapPart(v)]
        ELSE [ret |-> IF CheckForExistence(rows, dbok) THEN 0 ELSE -1,
              ldap |-> NoLdap]

\* Variant: under the directory, get never looks at the local store.
get_emailuser_no_bypass(email, dbok, d, fault) ==
    LET sel == SelectOneUser({r \in db : r.email = email}, dbok)
    IN  IF cfg.use_ldap
        THEN LET l == ldap_list_users(d, email, fault)
             IN  [user |-> IF l.ret = <<>> THEN NoUser ELSE l.ret[1],
                  ldap |-> LdapPart(l)]
        ELSE [user |-> IF sel.n < 0 THEN NoUser ELSE sel.user,
              ldap |-> NoLdap]

\* Variant: under the directory, get returns any local row it finds, staff
\* or not.
get_emailuser_any_local(email, dbok, d, fault) ==
    LET sel == SelectOneUser({r \in db : r.email = email}, dbok)
    IN  IF cfg.use_ldap
        THEN IF sel.n > 0
             THEN [user |-> sel.user, ldap |-> NoLdap]
             ELSE LET l == ldap_list_users(d, email, fault)
                  IN  [user |-> IF l.ret = <<>> THEN NoUser ELSE l.ret[1],
                       ldap |-> LdapPart(l)]
        ELSE [user |-> IF sel.n < 0 THEN NoUser ELSE sel.user,
              ldap |-> NoLdap]

ccnet_user_manager_get_emailuser(email, dbok, d, fault) ==
    LET sel == SelectOneUser({r \in db : r.email = email}, dbok)
    IN  IF cfg.use_ldap
        THEN IF sel.n > 0 /\ sel.user.is_staff # 0
             THEN [user |-> sel.user, ldap |-> NoLdap]
             ELSE LET l == ldap_list_users(d, email, fault)
                  IN  [user |-> IF l.ret = <<>> THEN NoUser ELSE l.ret[1],
                       ldap |-> LdapPart(l)]
        ELSE [user |-> IF sel.n < 0 THEN NoUser ELSE sel.user,
              ldap |-> NoLdap]

\* ccnet_user_manager_get_emailuser_by_id: NULL whenever the directory is
\* active, otherwise the row selected by id.
ccnet_user_manager_get_emailuser_by_id(id, dbok) ==
    IF cfg.use_ldap
    THEN [user |-> NoUser, ldap |-> NoLdap]
    ELSE LET sel == SelectOneUser({r \in db : r.id = id}, dbok)
         IN  [user |-> IF sel.n < 0 THEN NoUser ELSE sel.user,
              ldap |-> NoLdap]

\* Variant: the UPDATE stores the plaintext instead of its digest.
update_emailuser_plaintext(id, passwd, is_staff, is_active, dbok) ==
    IF ~cfg.use_ldap \/ is_staff # 0
    THEN SqlUpdate(id, passwd, is_staff, is_active, dbok)
    ELSE [ret |-> 0, db |-> db]

ccnet_user_manager_update_emailuser(id, passwd, is_staff, is_active, dbok) ==
    IF ~cfg.use_ldap \/ is_staff # 0
    THEN SqlUpdate(id, hash_password(passwd), is_staff, is_active, dbok)
    ELSE [ret |-> 0, db |-> db]

\* The rows of EmailUser in the order a SELECT without ORDER BY walks the
\* table: by id, the primary key.
RECURSIVE TableOrder(_)
TableOrder(rows) ==
    IF rows = {} THEN <<>>
    ELSE LET r == CHOOSE x \in rows : \A y \in rows : x.id <= y.id
         IN  <<r>> \o TableOrder(rows \ {r})

\* count rows of s after skipping offset rows.
Window(s, offset, count) ==
    SubSeq(s, offset + 1,
           IF offset + count < Len(s) THEN offset + count ELSE Len(s))

\* The statement built at lines 686-690 as each dialect executes it: n is
\* the result of ccnet_db_foreach_selected_row (-1 when the statement
\* fails), rows the rows handed to the callback.  "LIMIT start, limit" is
\* MySQL's and SQLite's form: SQLite reads a negative limit as no limit and
\* a negative offset as 0, MySQL rejects a negative number, PostgreSQL
\* rejects the form itself.
SelectEmailUsers(start, limit, dbok) ==
    LET all == TableOrder(db)
        failed == [n |-> -1, rows |-> <<>>]
        some(rows) == [n |-> Len(rows), rows |-> rows]
    IN  IF ~dbok THEN failed
        ELSE IF start = -1 /\ limit = -1 THEN some(all)
        ELSE CASE dialect = "SQLITE" ->
                    some(Window(all, IF start < 0 THEN 0 ELSE start,
                                IF limit < 0 THEN Len(all) ELSE limit))
               [] dialect = "MYSQL" ->
                    IF start < 0 \/ limit < 0 THEN failed
                    ELSE some(Window(all, start, limit))
               [] dialect = "PGSQL" -> failed

\* get_emailusers_cb: columns 0, 1, 3, 4, 5 of the row (passwd is skipped).
get_emailusers_cb(row) ==
    User(row.id, row.email, row.is_staff, row.is_active, row.ctime)

\* The callback's g_list_prepend for each row in turn.
RECURSIVE PrependUsers(_, _)
PrependUsers(rows, acc) ==
    IF rows = <<>> THEN acc
    ELSE PrependUsers(Tail(rows), <<get_emailusers_cb(Head(rows))>> \o acc)

\* g_list_reverse.
Reverse(s) == [i \in 1..Len(s) |-> s[Len(s) + 1 - i]]

\* Variant: the listing always issues the statement without LIMIT.
get_emailusers_no_limit(start, limit, dbok, d, fault) ==
    IF cfg.use_ldap
    THEN LET l == ldap_list_users(d, "*", fault)
         IN  [users |-> l.ret, ldap |-> LdapPart(l)]
    ELSE LET sel == SelectEmailUsers(-1, -1, dbok)
         IN  [users |-> IF sel.n < 0 THEN <<>>
                        ELSE Reverse(PrependUsers(sel.rows, <<>>)),
              ldap |-> NoLdap]

ccnet_user_manager_get_emailusers(start, limit, dbok, d, fault) ==
    IF cfg.use_ldap
    THEN LET l == ldap_list_users(d, "*", fault)
         IN  [users |-> l.ret, ldap |-> LdapPart(l)]
    ELSE LET sel == SelectEmailUsers(start, limit, dbok)
         IN  [users |-> IF sel.n < 0 THEN <<>>
                        ELSE Reverse(PrependUsers(sel.rows, <<>>)),
              ldap |-> NoLdap]

\* What ccnet_db_get_int64 may return for a statement that fails.  The
\* value is fixed by ccnet-db, not by this source: it cannot depend on the
\* rows, and it is an input of the call, drawn from the two conventional
\* failure values.
Int64Failures == {-1, 0}

\* ccnet_db_get_int64: the value of the first column of the first row of
\* the statement's result, or the failure value when the statement fails.
ccnet_db_get_int64(value, dbok, failed) == IF dbok THEN value ELSE failed

ccnet_user_manager_count_emailusers(dbok, failed, d, fault) ==
    IF cfg.use_ldap
    THEN LET c == ldap_count_users(d, "*", fault)
         IN  [ret |-> c.ret, ldap |-> LdapPart(c)]
    ELSE [ret |-> ccnet_db_get_int64(Cardinality(db), dbok, failed),
          ldap |-> NoLdap]

----------------------------------------------------------------------------
(* State machine *)

\* The record of a call, before its arguments and results are filled in.
Call(op) ==
    [op |-> op, email |-> NULL, id |-> 0, passwd |-> NULL,
     is_staff |-> 0, is_active |-> 0, now |-> 0,
     dbok |-> TRUE, dir |-> <<>>, fault |-> "none",
     start |-> 0, limit |-> 0,
     ret |-> 0, user |-> NoUser, users |-> <<>>, ldap |-> NoLdap]

\* The directory inputs of a call: every directory content with a library
\* that works, and every library fault against the directory that holds both
\* entries.  With no directory configured the operation reads neither.
LdapInputs(faults) ==
    IF cfg.use_ldap
    THEN {<<d, "none">> : d \in Directories}
         \cup {<<<<DirEntry1, DirEntry2>>, f>> : f \in faults \ {"none"}}
    ELSE {<<<<>>, "none">>}
\* The (start, limit) arguments of a listing: the "everything" sentinel and
\* every window within the bounds.
Windows == {<<-1, -1>>} \cup ((0..MaxStart) \X (0..MaxLimit))
\* Outcomes of the database statement, for operations that issue one.
DbInputs(issued) == IF issued THEN BOOLEAN ELSE {TRUE}

\* Caller threads of concurrent add calls, and the record of one such call:
\* where the thread is, the arguments, the time read at line 481, whether
\* the engine executed its INSERT, the value returned.
Threads == {"t1", "t2"}
AddCall(pc) ==
    [pc |-> pc, email |-> NULL, passwd |-> NULL, is_staff |-> 0,
     is_active |-> 0, now |-> 0, dbok |-> TRUE, ret |-> 0]
NoAdds == [t \in Threads |-> AddCall("none")]

\* No call is in progress: the last call's results have been taken.
Idle == last.op = "none"

Init ==
    /\ dialect \in Dialects
    /\ \E keyf \in KeyFiles :
          /\ try_load_ldap_settings(keyf).ret = 0
          /\ cfg = try_load_ldap_settings(keyf).cfg
    /\ catalog = check_db_table(dialect, {})
    /\ db = {}
    /\ nextId = 1
    /\ hist = [e \in Emails |-> "none"]
    /\ last = Call("none")
    /\ adds = NoAdds

\* ccnet_user_manager_prepare at a restart of the server: the configuration
\* is read again, the database (a file or a server) is the one left by the
\* previous run.
Prepare ==
    \E keyf \in KeyFiles :
        /\ Idle
        /\ try_load_ldap_settings(keyf).ret = 0
        /\ cfg' = try_load_ldap_settings(keyf).cfg
        /\ catalog' = check_db_table(dialect, catalog)
        /\ last' = Call("none")
        /\ UNCHANGED <<adds, dialect, db, nextId, hist>>

AddEmailUser ==
    /\ Idle
    /\ \E email \in Emails, passwd \in Passwords, is_staff \in Flags,
       is_active \in Flags, now \in Times, dbok \in DbInputs(~cfg.use_ldap) :
        LET r == ccnet_user_manager_add_emailuser(email, passwd, is_staff,
                                                  is_active, now, dbok)
        IN  /\ r.nextId <= MaxId + 1
            /\ db' = r.db
            /\ nextId' = r.nextId
            /\ hist' = IF r.db # db THEN [hist EXCEPT ![email] = passwd] ELSE hist
            /\ last' = [Call("add") EXCEPT !.email = email, !.passwd = passwd,
                            !.is_staff = is_staff, !.is_active = is_active,
                            !.now = now, !.dbok = dbok, !.ret = r.ret]
            /\ UNCHANGED <<adds, cfg, dialect, catalog>>

RemoveEmailUser ==
    /\ Idle
    /\ \E email \in Emails, dbok \in DbInputs(~cfg.use_ldap) :
        LET r == ccnet_user_manager_remove_emailuser(email, dbok)
        IN  /\ db' = r.db
            /\ hist' = IF ~cfg.use_ldap /\ r.ret = 0
                       THEN [hist EXCEPT ![email] = "removed"] ELSE hist
            /\ last' = [Call("remove") EXCEPT !.email = email, !.dbok = dbok,
                            !.ret = r.ret]
            /\ UNCHANGED <<adds, cfg, dialect, catalog, nextId>>

ValidateEmailUser ==
    /\ Idle
    /\ \E email \in Emails, passwd \in Passwords, dbok \in BOOLEAN,
          li \in LdapInputs(VerifyFaults) :
        LET d == li[1]
            fault == li[2]
            r == ccnet_user_manager_validate_emailuser(email, passwd, dbok,
                                                       d, fault)
        IN  /\ last' = [Call("validate") EXCEPT !.email = email,
                            !.passwd = passwd, !.dbok = dbok, !.dir = d,
                            !.fault = fault, !.ret = r.ret, !.ldap = r.ldap]
            /\ UNCHANGED <<adds, cfg, dialect, catalog, db, nextId, hist>>

GetEmailUser ==
    /\ Idle
    /\ \E email \in Emails, dbok \in BOOLEAN,
          li \in LdapInputs(SearchFaults) :
        LET d == li[1]
            fault == li[2]
            r == ccnet_user_manager_get_emailuser(email, dbok, d, fault)
        IN  /\ last' = [Call("get") EXCEPT !.email = email, !.dbok = dbok,
                            !.dir = d, !.fault = fault, !.user = r.user,
                            !.ldap = r.ldap]
            /\ UNCHANGED <<adds, cfg, dialect, catalog, db, nextId, hist>>

UpdateEmailUser ==
    /\ Idle
    /\ \E id \in Ids, passwd \in Passwords, is_staff \in Flags, is_active \in Flags :
      \E dbok \in DbInputs(~cfg.use_ldap \/ is_staff # 0) :
        LET r == ccnet_user_manager_update_emailuser(id, passwd, is_staff,
                                                     is_active, dbok)
        IN  /\ db' = r.db
            /\ hist' = [e \in Emails |->
                          IF \E q \in db : q.email = e /\ q.id = id /\ q \notin r.db
                          THEN "changed" ELSE hist[e]]
            /\ last' = [Call("update") EXCEPT !.id = id, !.passwd = passwd,
                            !.is_staff = is_staff, !.is_active = is_active,
                            !.dbok = dbok, !.ret = r.ret]
            /\ UNCHANGED <<adds, cfg, dialect, catalog, nextId>>

GetEmailUserById ==
    /\ Idle
    /\ \E id \in Ids, dbok \in DbInputs(~cfg.use_ldap) :
        LET r == ccnet_user_manager_get_emailuser_by_id(id, dbok)
        IN  /\ last' = [Call("get_by_id") EXCEPT !.id = id, !.dbok = dbok,
                            !.user = r.user, !.ldap = r.ldap]
            /\ UNCHANGED <<adds, cfg, dialect, catalog, db, nextId, hist>>

ListEmailUsers ==
    /\ Idle
    /\ \E w \in Windows, dbok \in DbInputs(~cfg.use_ldap),
          li \in LdapInputs(SearchFaults) :
        LET d == li[1]
            fault == li[2]
            r == ccnet_user_manager_get_emailusers(w[1], w[2], dbok, d, fault)
        IN  /\ last' = [Call("list") EXCEPT !.start = w[1], !.limit = w[2],
                            !.dbok = dbok, !.dir = d, !.fault = fault,
                            !.users = r.users, !.ldap = r.ldap]
            /\ UNCHANGED <<adds, cfg, dialect, catalog, db, nextId, hist>>

CountEmailUsers ==
    /\ Idle
    /\ \E dbok \in DbInputs(~cfg.use_ldap), failed \in Int64Failures,
          li \in LdapInputs(SearchFaults) :
        LET d == li[1]
            fault == li[2]
            r == ccnet_user_manager_count_emailusers(dbok, failed, d, fault)
        IN  /\ last' = [Call("count") EXCEPT !.dbok = dbok, !.dir = d,
                            !.fault = fault, !.ret = r.ret, !.ldap = r.ldap]
            /\ UNCHANGED <<adds, cfg, dialect, catalog, db, nextId, hist>>

\* The caller takes the results of the call that returned.
Return ==
    /\ ~Idle
    /\ last' = Call("none")
    /\ UNCHANGED <<adds, cfg, dialect, catalog, db, nextId, hist>>

Next ==
    \/ Prepare
    \/ Return
    \/ AddEmailUser
    \/ RemoveEmailUser
    \/ ValidateEmailUser
    \/ GetEmailUser
    \/ UpdateEmailUser

Spec == Init /\ [][Next]_vars

(* The listing operations.  validate, get, list and count only read the
   store: each leaves every variable but `last` unchanged, so the stores
   reachable are those the writing operations produce, and the listing
   reads are explored together with the writing operations alone. *)
NextListing ==
    \/ Prepare
    \/ Return
    \/ AddEmailUser
    \/ RemoveEmailUser
    \/ UpdateEmailUser
    \/ ListEmailUsers
    \/ CountEmailUsers

SpecListing == Init /\ [][NextListing]_vars

\* The operations that return Accounts, with the writing operations.
NextLookup ==
    \/ Prepare
    \/ Return
    \/ AddEmailUser
    \/ RemoveEmailUser
    \/ UpdateEmailUser
    \/ GetEmailUser
    \/ GetEmailUserById
    \/ ListEmailUsers

SpecLookup == Init /\ [][NextLookup]_vars

----------------------------------------------------------------------------
(* Concurrent add calls.  The manager takes no lock: each caller thread runs
   ccnet_user_manager_add_emailuser on its own stack.  The time, the digest
   and the statement text are local to the thread; the only step that
   touches shared state is the single INSERT statement, which the engine
   executes atomically under the unique index on email. *)

\* A thread enters add with its arguments and reads the time (line 481).
BeginAdd ==
    \E t \in Threads, email \in Emails, passwd \in Passwords,
       is_staff \in Flags, is_active \in Flags, now \in Times :
        /\ adds[t].pc = "none"
        /\ adds' = [adds EXCEPT ![t] =
                      [AddCall("called") EXCEPT !.email = email,
                           !.passwd = passwd, !.is_staff = is_staff,
                           !.is_active = is_active, !.now = now]]
        /\ UNCHANGED <<cfg, dialect, catalog, db, nextId, hist, last>>

\* The thread hashes the password, has the engine execute its INSERT and
\* returns (lines 484-497).
ExecAdd ==
    \E t \in Threads, dbok \in DbInputs(~cfg.use_ldap) :
        LET a == adds[t]
            r == ccnet_user_manager_add_emailuser(a.email, a.passwd,
                     a.is_staff, a.is_active, a.now, dbok)
        IN  /\ a.pc = "called"
            /\ r.nextId <= MaxId + 1
            /\ db' = r.db
            /\ nextId' = r.nextId
            /\ hist' = IF r.db # db THEN [hist EXCEPT ![a.email] = a.passwd]
                       ELSE hist
            /\ adds' = [adds EXCEPT ![t] =
                          [a EXCEPT !.pc = "returned", !.dbok = dbok,
                                    !.ret = r.ret]]
            /\ UNCHANGED <<cfg, dialect, catalog, last>>

NextConcurrent ==
    \/ BeginAdd
    \/ ExecAdd

SpecConcurrent == Init /\ [][NextConcurrent]_vars

----------------------------------------------------------------------------
(* Vocabulary of the properties *)

\* The call that has just returned is `op`.
Returned(op) == last.op = op
\* The step is a call of `op` (its record is in last').
Calls(op) == last'.op = op

StaffRow(email) == \E r \in db : r.email = email /\ r.is_staff # 0
HasRow(email) == \E r \in db : r.email = email
DigestMatches(email, passwd) ==
    \E r \in db : r.email = email /\ r.passwd = hash_password(passwd)
StaffRowMatching(email, passwd) ==
    \E r \in db : /\ r.email = email
                  /\ r.is_staff # 0
                  /\ r.passwd = hash_password(passwd)

\* What the Directory Adapter answers for the inputs of the last call.
VerifyOfLast ==
    ldap_verify_user_password(last.dir, last.email, last.passwd, last.fault)

----------------------------------------------------------------------------
(* C1.  Directory active, a local staff row for the email whose digest is
   hash(password), and the store's lookup executes: validate returns success
   (0) and makes no directory call at all: no ldap_initialize, no bind, no
   search. *)
C1_StaffValidatesLocally ==
    ( /\ Returned("validate")
      /\ cfg.use_ldap
      /\ last.dbok
      /\ StaffRowMatching(last.email, last.passwd) )
    => /\ last.ret = 0
       /\ last.ldap = NoLdap

\* A staff validate that succeeded although the directory is empty.
C1_Witness ==
    /\ Returned("validate")
    /\ cfg.use_ldap
    /\ last.dbok
    /\ StaffRowMatching(last.email, last.passwd)
    /\ last.dir = <<>>
    /\ last.ret = 0
    /\ last.ldap.binds = 0 /\ last.ldap.searches = 0

(* C2.  Directory active and the email's local row absent or not staff:
   validate returns exactly what ldap_verify_user_password returns for the
   same email and password, and makes exactly its directory calls; a local
   non-staff digest match does not authenticate by itself. *)
C2_NonStaffIsDirectoryAuthoritative ==
    ( /\ Returned("validate")
      /\ cfg.use_ldap
      /\ ~StaffRow(last.email) )
    => /\ last.ret = VerifyOfLast.ret
       /\ last.ldap = LdapPart(VerifyOfLast)

\* A non-staff row whose digest matches, rejected because the directory
\* holds no entry for the email.
C2_Witness ==
    /\ Returned("validate")
    /\ cfg.use_ldap
    /\ last.dbok
    /\ HasRow(last.email)
    /\ ~StaffRow(last.email)
    /\ DigestMatches(last.email, last.passwd)
    /\ last.fault = "none"
    /\ SearchResult(last.dir, last.email) = <<>>
    /\ last.ret = -1

(* C3 as stated.  Directory active, a local staff row for the email, the
   store's lookup executes: neither validate (whatever the password) nor get
   makes a directory call. *)
C3_StaffNeverDelegated ==
    ( /\ Returned("validate") \/ Returned("get")
      /\ cfg.use_ldap
      /\ last.dbok
      /\ StaffRow(last.email) )
    => last.ldap = NoLdap

(* C3 amended.  Directory active, a local staff row for the email, the
   store's lookup executes: get makes no directory call and returns the
   local row; validate makes no directory call when the password's digest
   equals the stored one, and when it does not, validate is delegated: it
   opens a directory connection and returns what ldap_verify_user_password
   returns. *)
C3_StaffDelegatedOnlyOnMismatch ==
    ( /\ cfg.use_ldap
      /\ last.dbok
      /\ StaffRow(last.email) )
    => /\ Returned("get") =>
            /\ last.ldap = NoLdap
            /\ \E r \in db : r.email = last.email /\ last.user = get_emailuser_cb(r)
       /\ (Returned("validate") /\ DigestMatches(last.email, last.passwd)) =>
            last.ldap = NoLdap
       /\ (Returned("validate") /\ ~DigestMatches(last.email, last.passwd)) =>
            /\ last.ldap.inits >= 1
            /\ last.ret = VerifyOfLast.ret

\* A staff email authenticated by the directory with a password that is not
\* the locally stored one.
C3_Witness ==
    /\ Returned("validate")
    /\ cfg.use_ldap
    /\ last.dbok
    /\ StaffRow(last.email)
    /\ ~DigestMatches(last.email, last.passwd)
    /\ last.ldap.searches = 1
    /\ last.ret = 0

(* C4 as stated.  Directory active and the statement, if issued, executes:
   update(id, ...) is applied exactly when the stored row with that id is
   staff: a stored non-staff row leaves the store unchanged whatever the
   is_staff argument, a stored staff row gets passwd/is_staff/is_active
   overwritten with the arguments. *)
C4_UpdateAppliedIffStoredRowIsStaff ==
    [][ ( /\ Calls("update")
          /\ cfg.use_ldap
          /\ last'.dbok )
        => db' = { IF r.id = last'.id /\ r.is_staff # 0
                   THEN [r EXCEPT !.passwd = hash_password(last'.passwd),
                                  !.is_staff = last'.is_staff,
                                  !.is_active = last'.is_active]
                   ELSE r : r \in db } ]_vars

(* C5.  Directory active: add and remove return success (0) and leave the
   local store as it was: no row inserted, none deleted, the id counter
   untouched, for every email and every store state. *)
C5_AddRemoveSuppressed ==
    [][ ( /\ Calls("add") \/ Calls("remove")
          /\ cfg.use_ldap )
        => /\ last'.ret = 0
           /\ db' = db
           /\ nextId' = nextId ]_vars

\* A remove under directory mode that returned success while the row of that
\* email is still in the store.
C5_Witness ==
    /\ Returned("remove")
    /\ cfg.use_ldap
    /\ last.ret = 0
    /\ HasRow(last.email)

(* C6.  No directory configured, the row of the email was written by a
   successful add(email, password) and by no remove or update since, and the
   store's lookup executes: validate(email, p) succeeds exactly when p is
   that password. *)
C6_AddThenValidate ==
    ( /\ Returned("validate")
      /\ ~cfg.use_ldap
      /\ last.dbok
      /\ hist[last.email] \in Passwords )
    => (last.ret = 0 <=> last.passwd = hist[last.email])

\* validate with the password of the add succeeded.
C6_Witness ==
    /\ Returned("validate")
    /\ ~cfg.use_ldap
    /\ last.dbok
    /\ hist[last.email] = last.passwd
    /\ last.ret = 0

(* C7.  In every reachable state at most one row has any given email (and
   ids are unique); an add for an email that already has a row leaves the
   store unchanged, and where the INSERT is issued (no directory configured)
   it returns failure (-1). *)
C7_EmailUnique ==
    /\ [](\A r1, r2 \in db : (r1.email = r2.email \/ r1.id = r2.id) => r1 = r2)
    /\ [][ ( /\ Calls("add")
             /\ HasRow(last'.email) )
           => /\ db' = db
              /\ ~cfg.use_ldap => last'.ret = -1 ]_vars

\* An add that was rejected by the unique index although the engine works:
\* the existing row kept a digest different from the one offered.
C7_Witness ==
    /\ Returned("add")
    /\ ~cfg.use_ldap
    /\ last.dbok
    /\ last.ret = -1
    /\ \E r \in db : r.email = last.email /\ r.passwd # hash_password(last.passwd)

(* C8.  No directory configured: a remove whose DELETE executes returns
   success whether or not the row exists, leaves no row of that email, and
   leaves every other row (the whole store when there was none) unchanged;
   a get of an email removed with no add since returns not found (NULL). *)
C8_RemoveThenGet ==
    /\ []( /\ (Returned("remove") /\ ~cfg.use_ldap /\ last.dbok) =>
                (last.ret = 0 /\ ~HasRow(last.email))
           /\ (Returned("get") /\ ~cfg.use_ldap /\ hist[last.email] = "removed") =>
                last.user = NoUser )
    /\ [][ ( /\ Calls("remove")
             /\ ~cfg.use_ldap
             /\ last'.dbok )
           => db' = {r \in db : r.email # last'.email} ]_vars

\* A get that found nothing for an email removed earlier, in a store whose
\* id counter shows that rows were added.
C8_Witness ==
    /\ Returned("get")
    /\ ~cfg.use_ldap
    /\ last.dbok
    /\ hist[last.email] = "removed"
    /\ nextId > 1
    /\ last.user = NoUser

(* C9.  No directory configured and the UPDATE executes: update(id, ...) sets
   passwd to hash(password) and is_staff/is_active to the arguments in the
   row of that id, keeps that row's id, email and ctime, leaves every other
   row as it was, and neither adds nor removes a row (an id with no row
   changes nothing); it returns 0. *)
C9_UpdateFrame ==
    [][ ( /\ Calls("update")
          /\ ~cfg.use_ldap
          /\ last'.dbok )
        => /\ last'.ret = 0
           /\ \A r \in db : r.id # last'.id => r \in db'
           /\ \A r \in db : r.id = last'.id =>
                \E q \in db' : /\ q.id = r.id
                               /\ q.email = r.email
                               /\ q.ctime = r.ctime
                               /\ q.passwd = hash_password(last'.passwd)
                               /\ q.is_staff = last'.is_staff
                               /\ q.is_active = last'.is_active
           /\ Cardinality(db') = Cardinality(db)
           /\ nextId' = nextId ]_vars

\* An update that rewrote one row of a two-row store.
C9_Witness ==
    /\ Returned("update")
    /\ ~cfg.use_ldap
    /\ last.dbok
    /\ last.ret = 0
    /\ Cardinality(db) = 2
    /\ \E r \in db : /\ r.id = last.id
                     /\ r.passwd = hash_password(last.passwd)
                     /\ hist[r.email] = "changed"

(* C10.  Directory active and reachable, no local staff row for the email,
   and the directory holds an entry matching it: get returns an Account
   whose email is the first value of the login attribute of a matching
   entry and whose id is 0, is_staff false, is_active true, ctime 0, also
   when a non-staff local row of that email exists. *)
C10_GetFromDirectory ==
    ( /\ Returned("get")
      /\ cfg.use_ldap
      /\ last.fault = "none"
      /\ ~StaffRow(last.email)
      /\ SearchResult(last.dir, last.email) # <<>> )
    => \E i \in 1..Len(SearchResult(last.dir, last.email)) :
          last.user = User(0, SearchResult(last.dir, last.email)[i].mail[1],
                           0, 1, 0)

\* A get answered from the directory although a non-staff local row of the
\* email, with its own id and flags, is in the store.
C10_Witness ==
    /\ Returned("get")
    /\ cfg.use_ldap
    /\ last.dbok
    /\ last.fault = "none"
    /\ \E r \in db : r.email = last.email /\ r.is_staff = 0 /\ r.is_active = 0
    /\ last.user.id = 0
    /\ last.user.is_active = 1
    /\ last.user.email = last.email

(* C11 as stated.  Directory active and reachable, no local staff row for
   the email: get returns the Account of the first entry of the search
   result, in the order the directory returned the entries, whatever the
   number of matching entries, and returns no Account when the directory
   returned none. *)
C11_GetReturnsFirstEntry ==
    ( /\ Returned("get")
      /\ cfg.use_ldap
      /\ last.fault = "none"
      /\ ~StaffRow(last.email) )
    => LET res == SearchResult(last.dir, last.email)
       IN  last.user = IF res = <<>> THEN NoUser ELSE LdapUser(res[1])

\* The directory search of the last call did not complete: the library
\* failed before or at ldap_search_s (a bind is only attempted when a
\* service DN is configured).
SearchFailed ==
    \/ last.fault \in {"init", "setopt", "search"}
    \/ last.fault = "bind" /\ cfg.user_dn # NULL

\* What list(-1, -1) returns in the state and for the backend inputs of
\* the last call.
ListOfLast ==
    ccnet_user_manager_get_emailusers(-1, -1, last.dbok, last.dir,
                                      last.fault).users

(* C12 as stated.  list(-1, -1) returns every row of the store when no
   directory is configured, and the number of accounts it returns equals
   what count() returns in the same state, with or without a directory,
   also when the backend query fails.  The two are compared wherever the
   source fixes both results: with the directory active, whether or not the
   bind and the search succeed, and with no directory when the statement
   executes (the value count returns for a failed statement is fixed
   outside the source). *)
C12_ListCardinalityEqualsCount ==
    /\ ( /\ Returned("list")
         /\ last.start = -1 /\ last.limit = -1
         /\ ~cfg.use_ldap /\ last.dbok )
       => /\ Len(last.users) = Cardinality(db)
          /\ \A r \in db : \E i \in 1..Len(last.users) :
                last.users[i] = get_emailusers_cb(r)
    /\ ( /\ Returned("count")
         /\ cfg.use_ldap \/ last.dbok )
       => last.ret = Len(ListOfLast)

(* C13 as stated.  For every start >= 0 and limit >= 0, list(start, limit)
   returns at most limit accounts, with no directory configured and with
   the directory active. *)
C13_ListAtMostLimit ==
    ( /\ Returned("list")
      /\ last.start >= 0 /\ last.limit >= 0 )
    => Len(last.users) <= last.limit

(* C13 amended.  For every start >= 0 and limit >= 0, list(start, limit)
   returns at most limit accounts when no directory is configured; with the
   directory active start and limit are ignored and, when the search
   completes, list returns one account for every entry of the directory. *)
C13_ListAtMostLimitFromStore ==
    ( /\ Returned("list")
      /\ last.start >= 0 /\ last.limit >= 0 )
    => /\ ~cfg.use_ldap => Len(last.users) <= last.limit
       /\ (cfg.use_ldap /\ ~SearchFailed) =>
             Len(last.users) = Len(last.dir)

\* A listing cut to one account out of a store of two rows.
C13_Witness ==
    /\ Returned("list")
    /\ ~cfg.use_ldap
    /\ last.dbok
    /\ Cardinality(db) = 2
    /\ last.start = 0 /\ last.limit = 1
    /\ Len(last.users) = 1

\* The causes of an authentication failure of the last validate call.
UnknownEmail ==
    IF cfg.use_ldap
    THEN ~StaffRow(last.email) /\ ~SearchFailed
         /\ SearchResult(last.dir, last.email) = <<>>
    ELSE ~HasRow(last.email)
WrongPassword ==
    IF cfg.use_ldap
    THEN /\ ~StaffRowMatching(last.email, last.passwd)
         /\ last.fault = "none"
         /\ SearchResult(last.dir, last.email) # <<>>
         /\ ~BindAccepted(last.dir, SearchResult(last.dir, last.email)[1].dn,
                          last.passwd)
    ELSE HasRow(last.email) /\ ~DigestMatches(last.email, last.passwd)
DirectoryUnreachable ==
    /\ cfg.use_ldap
    /\ ~(last.dbok /\ StaffRowMatching(last.email, last.passwd))
    /\ SearchFailed

(* C14.  validate returns one and the same value, -1, for every
   authentication failure: an unknown email, a wrong password and, with the
   directory active, a failed directory bind or search; its only other
   return value is 0, so the return value does not tell the causes apart. *)
C14_FailuresIndistinguishable ==
    Returned("validate")
    => /\ last.ret \in {0, -1}
       /\ (UnknownEmail \/ WrongPassword \/ DirectoryUnreachable)
             => last.ret = -1

\* A validate of an email the directory knows, failed because the search
\* could not be made.
C14_Witness ==
    /\ Returned("validate")
    /\ DirectoryUnreachable
    /\ last.fault = "search"
    /\ SearchResult(last.dir, last.email) # <<>>
    /\ last.ret = -1

(* C15 as stated.  Directory active and the bind or the search fails: the
   result of the listing differs from the result of a successful search
   with no matching entry, and so does the result of the count. *)
C15_UnavailableDiffersFromNoMatch ==
    (cfg.use_ldap /\ SearchFailed)
    => /\ Returned("list") =>
             last.users # ldap_list_users(<<>>, "*", "none").ret
       /\ Returned("count") =>
             last.ret # ldap_count_users(<<>>, "*", "none").ret

(* C16 as stated.  A delegated validate returns success only if the service
   or anonymous bind succeeded, the search found an entry, its DN was
   obtained, and a second bind with that DN and the supplied password was
   performed and accepted. *)
C16_VerifyNeedsAcceptedSecondBind ==
    ( /\ Returned("validate")
      /\ cfg.use_ldap
      /\ last.ldap.inits >= 1
      /\ last.ret = 0 )
    => LET res == SearchResult(last.dir, last.email)
       IN  /\ ~SearchFailed
           /\ res # <<>>
           /\ last.fault # "getdn"
           /\ last.ldap.binds = (IF cfg.user_dn # NULL THEN 2 ELSE 1)
           /\ BindAccepted(last.dir, res[1].dn, last.passwd)

(* C17 as stated.  When the local-store lookup inside validate or get fails
   under directory mode the operation reports failure and does not go on to
   the directory; a failed statement of add, remove or update is reported
   as failure, and so is a failed directory bind or search of a delegated
   validate. *)
C17_FailuresReported ==
    /\ (Returned("validate") /\ ~last.dbok) =>
           (last.ret = -1 /\ last.ldap = NoLdap)
    /\ (Returned("get") /\ ~last.dbok) =>
           (last.user = NoUser /\ last.ldap = NoLdap)
    /\ ((Returned("add") \/ Returned("remove") \/ Returned("update"))
        /\ ~last.dbok) => last.ret = -1
    /\ (Returned("validate") /\ DirectoryUnreachable) => last.ret = -1

(* C19 as stated.  Every directory handle opened during a call has been
   closed with ldap_unbind_s when the call returns: no handle is left open
   by any call, on success or on any failure path. *)
C19_NoHandleLeftOpen == last.ldap.open = 0

\* A non-unique index of the catalog on the column of the table.
HasPlainIndex(cat, table, col) ==
    \E o \in cat : /\ Kind(o) = "index"
                   /\ o[3] = table
                   /\ o[4] = col
                   /\ ~o[5]

(* C20 as stated.  In each of the three dialects the schema check_db_table
   leaves is the same: EmailUser is unique on email, Binding is unique on
   peer_id and has a non-unique index on email. *)
C20_SchemaSameInEveryDialect ==
    /\ HasUnique(catalog, "EmailUser", "email")
    /\ HasUnique(catalog, "Binding", "peer_id")
    /\ HasPlainIndex(catalog, "Binding", "email")

(* C18.  No directory configured, two add calls for the same email, absent
   from the store, run concurrently and the engine executes both INSERT
   statements: in every interleaving one call returns 0 and the other -1,
   and the store ends with exactly one row of that email, which holds the
   digest, the flags and the time of the call that returned 0. *)
C18_ConcurrentAddOneWinner ==
    \A t1 \in Threads : \A t2 \in Threads \ {t1} :
        ( /\ ~cfg.use_ldap
          /\ adds[t1].pc = "returned" /\ adds[t2].pc = "returned"
          /\ adds[t1].email = adds[t2].email
          /\ adds[t1].dbok /\ adds[t2].dbok )
        => /\ {adds[t1].ret, adds[t2].ret} = {0, -1}
           /\ \E w \in {t1, t2} :
                /\ adds[w].ret = 0
                /\ \E id \in Ids :
                     {r \in db : r.email = adds[w].email} =
                        {Row(id, adds[w].email, hash_password(adds[w].passwd),
                             adds[w].is_staff, adds[w].is_active, adds[w].now)}

\* Two concurrent adds of one email with different passwords and flags have
\* both returned, and the second thread's row is the one stored.
C18_Witness ==
    /\ ~cfg.use_ldap
    /\ adds["t1"].pc = "returned" /\ adds["t2"].pc = "returned"
    /\ adds["t1"].email = adds["t2"].email
    /\ adds["t1"].dbok /\ adds["t2"].dbok
    /\ adds["t1"].passwd # adds["t2"].passwd
    /\ adds["t1"].is_staff # adds["t2"].is_staff
    /\ adds["t1"].ret = -1 /\ adds["t2"].ret = 0
    /\ \E r \in db : r.passwd = hash_password(adds["t2"].passwd)

\* The Accounts the last call returned.
AccountsOfLast ==
    IF Returned("list") THEN {last.users[i] : i \in 1..Len(last.users)}
    ELSE IF Returned("get") \/ Returned("get_by_id") THEN {last.user} \ {NoUser}
    ELSE {}

(* C21.  Directory active: an Account returned by get, by get-by-id or by
   the listing has is_staff set only if a row of that email with is_staff
   set is in the store at that moment; every Account of a call that went to
   the directory has is_staff clear, whatever the directory holds. *)
C21_StaffOnlyFromLocalRow ==
    cfg.use_ldap
    => \A u \in AccountsOfLast :
          /\ u.is_staff # 0 => StaffRow(u.email)
          /\ last.ldap.searches > 0 => u.is_staff = 0

\* A get that returned the local staff Account of an email for which the
\* directory holds an entry too.
C21_Witness ==
    /\ Returned("get")
    /\ cfg.use_ldap
    /\ last.user.is_staff = 1
    /\ last.user.id > 0
    /\ SearchResult(last.dir, last.email) # <<>>

====
